---- MODULE Spec2Model ----
(***************************************************************************)
(* Model of github.com/nussjustin/httpc: request construction through      *)
(* functional options (Fetch, FetchWithResponse, NewRequest, Endpoint.Do)  *)
(* and ordered, short-circuiting response handler dispatch.                *)
(*                                                                         *)
(* Text (URL paths, names, values) is a sequence of one-character strings. *)
(***************************************************************************)
EXTENDS Integers, Sequences, FiniteSets, TLC

VARIABLES
    api,          \* the entry point of the call being executed
    pc,           \* position inside the call
    url,          \* the url argument, as parsed by http.NewRequestWithContext
    eOptions,     \* Endpoint.Options
    opts,         \* the opts ... argument of the call
    mergedOpts,   \* the options the call is going to apply, in order
    optIdx,       \* index of the next option of mergedOpts to apply
    req,          \* the *http.Request under construction (NoReq before creation)
    applied,      \* trace: one entry per option invocation
    sent,         \* number of Client.Do calls made
    handlerKind,  \* "chain": a HandlerChain / Endpoint.Handlers, "func": a single Handler
    nHandlers,    \* length of the handler list
    hIdx,         \* index of the next handler to invoke
    calls,        \* trace: one entry per handler invocation
    body,         \* resp.Body (NoBody while there is no response)
    t,            \* var t T, the value handlers write into through dst
    result,       \* what the call returned (meaningful when pc = "done")
    resp,         \* StatusCode and Content-Type of the response being handled
    dispatch      \* trace: one entry per call of a ConditionalHandler / StatusHandler

vars == << api, pc, url, eOptions, opts, mergedOpts, optIdx, req, applied, sent,
           handlerKind, nHandlers, hIdx, calls, body, t, result, resp, dispatch >>

----------------------------------------------------------------------------
(* Bounds *)

MaxOpts == 2          \* most options of a call (Endpoint.Options and opts ... together)
MaxHandlers == 2      \* longest handler list
MaxPathSteps == 1     \* most direct WithPathValue invocations on one request
MaxSegments == 3      \* most segments of a generated path

----------------------------------------------------------------------------
(* Text helpers *)

RECURSIVE Concat(_)
Concat(ss) == IF ss = << >> THEN << >> ELSE Head(ss) \o Concat(Tail(ss))

\* s has lit at position i (1-based)
HasAt(s, i, lit) ==
    /\ i >= 1
    /\ i + Len(lit) - 1 <= Len(s)
    /\ \A k \in 1..Len(lit) : s[i + k - 1] = lit[k]

Drop(s, n) == SubSeq(s, n + 1, Len(s))

\* index of the first occurrence of c in s, 0 when there is none
RECURSIVE IndexFrom(_, _, _)
IndexFrom(s, c, i) ==
    IF i > Len(s) THEN 0
    ELSE IF s[i] = c THEN i
    ELSE IndexFrom(s, c, i + 1)

\* the "/"-separated segments of a path
RECURSIVE Segments(_)
Segments(s) ==
    LET i == IndexFrom(s, "/", 1)
    IN  IF i = 0 THEN << s >>
        ELSE << SubSeq(s, 1, i - 1) >> \o Segments(Drop(s, i))

----------------------------------------------------------------------------
(* net/url.PathEscape, as used by WithPathValue *)

Digits == << "0", "1", "2", "3", "4", "5", "6", "7", "8", "9" >>
Letters == { "a", "b", "i", "j", "k", "v", "x", "F", "B", "D" }
DigitSet == { Digits[k] : k \in 1..10 }

\* url.PathEscape: unreserved characters and the sub-delimiters a path segment
\* may hold ('$', ':', ...) stay; '/', '{', '}' are percent-encoded.
PathEscapeChar(c) ==
    CASE c = "/" -> << "%", "2", "F" >>
      [] c = "{" -> << "%", "7", "B" >>
      [] c = "}" -> << "%", "7", "D" >>
      [] c = "%" -> << "%", "2", "5" >>
      [] OTHER   -> << c >>

PathEscape(value) == Concat([k \in 1..Len(value) |-> PathEscapeChar(value[k])])

----------------------------------------------------------------------------
(* regexp: the pattern (^|/)<placeholder>(/|$) and ReplaceAllString *)

\* fmt.Sprintf(`\{%s\}`, regexp.QuoteMeta(name)) in httpc.go,
\* fmt.Sprintf(`:%s`, regexp.QuoteMeta(name)) in the Endpoint version:
\* the literal text the compiled pattern matches between its two groups.
Placeholder(syntax, name) ==
    IF syntax = "brace" THEN << "{" >> \o name \o << "}" >> ELSE << ":" >> \o name

NoMatch == [ok |-> FALSE, g1 |-> << >>, g2 |-> << >>, end |-> 0]

\* the second group (/|$) at position p: "/" is tried first, then end of text
MatchTail(src, p, g1) ==
    IF p <= Len(src) /\ src[p] = "/"
    THEN [ok |-> TRUE, g1 |-> g1, g2 |-> << "/" >>, end |-> p + 1]
    ELSE IF p = Len(src) + 1
    THEN [ok |-> TRUE, g1 |-> g1, g2 |-> << >>, end |-> p]
    ELSE NoMatch

\* the pattern without its first group (^|/): the placeholder text matches
\* wherever it begins
MatchAtNoPrefix(src, i, lit) ==
    IF HasAt(src, i, lit) THEN MatchTail(src, i + Len(lit), << >>) ELSE NoMatch

\* a match of the pattern starting exactly at position i: the alternative ^
\* (only at the start of the text) is tried before the alternative "/"
MatchAt(src, i, lit) ==
    LET a == IF i = 1 /\ HasAt(src, 1, lit)
             THEN MatchTail(src, 1 + Len(lit), << >>) ELSE NoMatch
        b == IF i <= Len(src) /\ src[i] = "/" /\ HasAt(src, i + 1, lit)
             THEN MatchTail(src, i + 1 + Len(lit), << "/" >>) ELSE NoMatch
    IN  IF a.ok THEN a ELSE b

IsWordChar(c) == c \in Letters \/ c \in DigitSet \/ c = "_"

RECURSIVE WordPrefixLen(_)
WordPrefixLen(s) ==
    IF s # << >> /\ IsWordChar(Head(s)) THEN 1 + WordPrefixLen(Tail(s)) ELSE 0

DigitVal(c) == (CHOOSE k \in 1..10 : Digits[k] = c) - 1

RECURSIVE NumVal(_, _)
NumVal(s, acc) ==
    IF s = << >> THEN acc ELSE NumVal(Tail(s), 10 * acc + DigitVal(Head(s)))

\* regexp's extract: the group reference at the start of str (the text after
\* a '$'): $name or ${name}; num is -1 for a name that is not a number
Extract(str) ==
    LET brace == str # << >> /\ Head(str) = "{"
        rest  == IF brace THEN Tail(str) ELSE str
        n     == WordPrefixLen(rest)
        name  == SubSeq(rest, 1, n)
        num   == IF \A k \in 1..n : name[k] \in DigitSet THEN NumVal(name, 0) ELSE -1
        bad   == [ok |-> FALSE, num |-> -1, rest |-> << >>]
    IN  IF n = 0 THEN bad
        ELSE IF brace
        THEN IF n + 1 <= Len(rest) /\ rest[n + 1] = "}"
             THEN [ok |-> TRUE, num |-> num, rest |-> Drop(rest, n + 1)]
             ELSE bad
        ELSE [ok |-> TRUE, num |-> num, rest |-> Drop(rest, n)]

\* regexp's expand: groups = << whole match, group 1, group 2 >>; the pattern
\* has no named groups, so a reference by name expands to nothing
RECURSIVE Expand(_, _)
Expand(template, groups) ==
    LET d == IndexFrom(template, "$", 1)
    IN  IF d = 0 THEN template
        ELSE
          LET before == SubSeq(template, 1, d - 1)
              after  == Drop(template, d)
              e      == Extract(after)
          IN  IF after # << >> /\ Head(after) = "$"
              THEN before \o << "$" >> \o Expand(Tail(after), groups)
              ELSE IF ~e.ok
              THEN before \o << "$" >> \o Expand(after, groups)
              ELSE before
                   \o (IF e.num >= 0 /\ e.num < Len(groups)
                       THEN groups[e.num + 1] ELSE << >>)
                   \o Expand(e.rest, groups)

\* regexp.ReplaceAllString: leftmost, non-overlapping matches; the search
\* resumes where the previous match ended
RECURSIVE ReplaceFrom(_, _, _, _)
ReplaceFrom(src, i, lit, template) ==
    IF i > Len(src) THEN << >>
    ELSE
      LET m == MatchAt(src, i, lit)
      IN  IF m.ok
          THEN Expand(template, << SubSeq(src, i, m.end - 1), m.g1, m.g2 >>)
               \o ReplaceFrom(src, m.end, lit, template)
          ELSE << src[i] >> \o ReplaceFrom(src, i + 1, lit, template)

ReplaceAllString(src, lit, template) == ReplaceFrom(src, 1, lit, template)

----------------------------------------------------------------------------
(* Errors *)

\* an error value: its dynamic type / identity, the sentinel it wraps (%w),
\* and the fields of UnusedPathValueError / MissingPathValueError
Err(type) ==
    [type |-> type, wraps |-> "", name |-> << >>, value |-> << >>,
     path |-> << >>, sharesURL |-> FALSE]

NilErr == Err("nil")

\* fmt.Errorf("...: %w", sentinel)
Wrapping(sentinel) == [Err("wrapped") EXCEPT !.wraps = sentinel]

\* errors.Is for the error shapes above
ErrorsIs(err, target) == err.type = target \/ err.wraps = target

ErrUnhandledResponse == Err("ErrUnhandledResponse")
ErrSkipHandler == Err("ErrSkipHandler")
ErrNotHandled == Err("ErrNotHandled")

\* &UnusedPathValueError{URL: ctx.Request.URL, ...}: URL is the request's own
\* *url.URL, so the error shows the path the request has when it is read
UnusedPathValueError(rq, name, value) ==
    [type |-> "UnusedPathValueError", wraps |-> "", name |-> name, value |-> value,
     path |-> << >>, sharesURL |-> TRUE]

\* &MissingPathValueError{URL: *req.URL, ...}: URL is a copy
MissingPathValueError(rq, name, value) ==
    [type |-> "MissingPathValueError", wraps |-> "", name |-> name, value |-> value,
     path |-> rq.path, sharesURL |-> FALSE]

\* e.URL.Path as Error() reads it, given the request as it is now
ErrorPath(err, rq) == IF err.sharesURL THEN rq.path ELSE err.path

----------------------------------------------------------------------------
(* Requests and options *)

Apis == { "Fetch", "FetchWithResponse", "NewRequest", "EndpointDo" }

\* httpc.go uses {name} placeholders, the Endpoint version :name
Syntax(a) == IF a \in { "Fetch", "FetchWithResponse" } THEN "brace" ELSE "colon"

\* the letters of header names, and http.CanonicalMIMEHeaderKey: the first
\* letter and every letter after a '-' in upper case, the others in lower case
ToUpper(c) == CASE c = "a" -> "A" [] c = "b" -> "B" [] c = "x" -> "X" [] OTHER -> c

ToLower(c) == CASE c = "A" -> "a" [] c = "B" -> "b" [] c = "X" -> "x" [] OTHER -> c

RECURSIVE CanonicalFrom(_, _)
CanonicalFrom(key, upper) ==
    IF key = << >> THEN << >>
    ELSE << IF upper THEN ToUpper(Head(key)) ELSE ToLower(Head(key)) >>
         \o CanonicalFrom(Tail(key), Head(key) = "-")

CanonicalMIMEHeaderKey(key) == CanonicalFrom(key, TRUE)

\* the keys an http.Header map of the model can hold
HeaderKeys == << << "B" >>, << "X", "-", "A" >> >>

\* make(http.Header)
EmptyHeader == [n \in 1..Len(HeaderKeys) |-> << >>]

\* req.Trailer before any trailer option: a nil map, which reads as empty
NilTrailer == [isNil |-> TRUE, values |-> EmptyHeader]

NoReq == [scheme |-> << >>, user |-> << >>, host |-> << >>,
          path |-> << "nil" >>, rawQuery |-> << >>,
          header |-> EmptyHeader, trailer |-> NilTrailer]

\* http.NewRequestWithContext(ctx, method, url, nil) on a valid url: the parsed
\* URL, an empty Header and no Trailer
NewRequestWithContext(u) ==
    [scheme |-> u.scheme, user |-> u.user, host |-> u.host,
     path |-> u.path, rawQuery |-> u.rawQuery,
     header |-> EmptyHeader, trailer |-> NilTrailer]

QueryKeys == << << "a" >>, << "k" >> >>   \* in the order Values.Encode sorts them

\* url.URL.Query(): the values of each key, in order of appearance
RECURSIVE ValuesOf(_, _)
ValuesOf(raw, key) ==
    IF raw = << >> THEN << >>
    ELSE (IF Head(raw)[1] = key THEN << Head(raw)[2] >> ELSE << >>)
         \o ValuesOf(Tail(raw), key)

Query(raw) == [n \in 1..Len(QueryKeys) |-> ValuesOf(raw, QueryKeys[n])]

KeyIndex(key) == CHOOSE n \in 1..Len(QueryKeys) : QueryKeys[n] = key

\* url.Values.Encode(): sorted by key, the values of a key in their order
Encode(q) ==
    Concat([n \in 1..Len(QueryKeys) |->
              [m \in 1..Len(q[n]) |-> << QueryKeys[n], q[n][m] >>]])

WithQueryParam(rq, key, value) ==
    [rq EXCEPT !.rawQuery =
        Encode([Query(rq.rawQuery) EXCEPT ![KeyIndex(key)] = << value >>])]

WithAddedQueryParam(rq, key, value) ==
    [rq EXCEPT !.rawQuery =
        Encode([Query(rq.rawQuery) EXCEPT ![KeyIndex(key)] = Append(@, value)])]

\* the index of the map entry Header.Set / Header.Add use for key
HeaderIndex(key) ==
    CHOOSE n \in 1..Len(HeaderKeys) : HeaderKeys[n] = CanonicalMIMEHeaderKey(key)

\* http.Header.Set and http.Header.Add
HeaderSet(h, key, value) == [h EXCEPT ![HeaderIndex(key)] = << value >>]

\* an Add that puts the new value in front of the existing ones
HeaderAddInFront(h, key, value) == [h EXCEPT ![HeaderIndex(key)] = << value >> \o @]

HeaderAdd(h, key, value) == [h EXCEPT ![HeaderIndex(key)] = Append(@, value)]

WithHeader(rq, key, value) == [rq EXCEPT !.header = HeaderSet(@, key, value)]

WithAddedHeader(rq, key, value) == [rq EXCEPT !.header = HeaderAdd(@, key, value)]

\* "if req.Trailer == nil { req.Trailer = make(http.Header) }"
MakeTrailer(tr) == IF tr.isNil THEN EmptyHeader ELSE tr.values

WithTrailer(rq, key, value) ==
    [rq EXCEPT !.trailer =
        [isNil |-> FALSE, values |-> HeaderSet(MakeTrailer(@), key, value)]]

WithAddedTrailer(rq, key, value) ==
    [rq EXCEPT !.trailer =
        [isNil |-> FALSE, values |-> HeaderAdd(MakeTrailer(@), key, value)]]

\* pattern.ReplaceAllString(URL.Path, "${1}"+url.PathEscape(value)+"${2}")
Replaced(syntax, path, name, value) ==
    ReplaceAllString(path, Placeholder(syntax, name),
        << "$", "{", "1", "}" >> \o PathEscape(value) \o << "$", "{", "2", "}" >>)

\* a replacement run over the user info as well as the path
WithPathValueInUserinfo(syntax, rq, name, value) ==
    LET replaced == Replaced(syntax, rq.path, name, value)
    IN  IF rq.path = replaced
        THEN [req |-> rq,
              err |-> IF syntax = "brace"
                      THEN UnusedPathValueError(rq, name, value)
                      ELSE MissingPathValueError(rq, name, value)]
        ELSE [req |-> [rq EXCEPT !.path = replaced,
                                 !.user = Replaced(syntax, @, name, value)],
              err |-> NilErr]

\* the option returned by WithPathValue(name, value), applied to rq
WithPathValue(syntax, rq, name, value) ==
    LET replaced == Replaced(syntax, rq.path, name, value)
    IN  IF rq.path = replaced
        THEN [req |-> rq,
              err |-> IF syntax = "brace"
                      THEN UnusedPathValueError(rq, name, value)
                      ELSE MissingPathValueError(rq, name, value)]
        ELSE [req |-> [rq EXCEPT !.path = replaced], err |-> NilErr]

Option(op, key, value) == [op |-> op, key |-> key, value |-> value]

\* the options a call is given in the main specification
OptionSet ==
    { Option("WithQueryParam", << "k" >>, << "1" >>),
      Option("WithAddedQueryParam", << "k" >>, << "2" >>),
      Option("WithPathValue", << "i" >>, << "v" >>),
      Option("OptionError", << >>, << >>) }

\* opt(req) / opt(fetchCtx): the request after the option and its error
RunOption(syntax, o, rq) ==
    CASE o.op = "WithQueryParam" ->
            [req |-> WithQueryParam(rq, o.key, o.value), err |-> NilErr]
      [] o.op = "WithAddedQueryParam" ->
            [req |-> WithAddedQueryParam(rq, o.key, o.value), err |-> NilErr]
      [] o.op = "WithPathValue" -> WithPathValue(syntax, rq, o.key, o.value)
      [] o.op = "WithHeader" ->
            [req |-> WithHeader(rq, o.key, o.value), err |-> NilErr]
      [] o.op = "WithAddedHeader" ->
            [req |-> WithAddedHeader(rq, o.key, o.value), err |-> NilErr]
      [] o.op = "WithTrailer" ->
            [req |-> WithTrailer(rq, o.key, o.value), err |-> NilErr]
      [] o.op = "WithAddedTrailer" ->
            [req |-> WithAddedTrailer(rq, o.key, o.value), err |-> NilErr]
      [] OTHER -> [req |-> rq, err |-> Err("optErr")]

\* the option loop without its return: an option's error is dropped
OptionLoopNeverEnds(err) == FALSE

\* "if err := opt(req); err != nil { return ... }": an option's error ends the loop
OptionLoopEnds(err) == err # NilErr

\* the two lists appended the other way round
MergeOptionsCallFirst(eo, co) == co \o eo

\* the switch at the head of Endpoint.Do
MergeOptions(eo, co) ==
    IF Len(eo) = 0 THEN co
    ELSE IF Len(co) = 0 THEN eo
    ELSE eo \o co

----------------------------------------------------------------------------
(* Response bodies *)

\* resp.Body: unread says whether data is left to read before EOF
NoBody == [kind |-> "none", unread |-> FALSE, closed |-> FALSE]

\* "reader": readCloser over an in-memory reader (reads still succeed after
\* Close); "http": a body of net/http (Read fails once it is closed);
\* "error": errorReader, every Read fails
BodyKinds == { "reader", "http", "error" }

ReadFails(b) == b.kind = "error" \/ (b.kind = "http" /\ b.closed)

\* io.Copy(io.Discard, resp.Body): reads until EOF or the first error
CopyToDiscard(b) == IF ReadFails(b) THEN b ELSE [b EXCEPT !.unread = FALSE]

CloseBody(b) == [b EXCEPT !.closed = TRUE]

\* discardBody without defer: it returns on io.Copy's error before closing
discardBodyNoDefer(b) == IF ReadFails(b) THEN b ELSE CloseBody(CopyToDiscard(b))

\* discardBody: the deferred Close runs whatever io.Copy returned
discardBody(b) == CloseBody(CopyToDiscard(b))

\* what a handler does to the body it is given
BodyEffects == { "none", "close", "discard" }

ApplyEffect(b, effect) ==
    CASE effect = "close" -> CloseBody(b)
      [] effect = "discard" -> discardBody(b)
      [] OTHER -> b

----------------------------------------------------------------------------
(* Handlers *)

\* the response head while there is no response, or none that handlers look at
NoResp == [status |-> 0, contentType |-> << >>]

\* the sentinel a handler returns to pass the response on
SkipSentinel(a) == IF a = "EndpointDo" THEN ErrSkipHandler ELSE ErrUnhandledResponse

\* the errors a handler may return
HandlerRets(a) ==
    { NilErr, SkipSentinel(a), Wrapping(SkipSentinel(a).type), Err("errTest") }

\* the loop stopping on nil only: an error never ends it
LoopStopsOnNilOnly(a, err) == err = NilErr

\* the loop comparing with == instead of errors.Is
LoopStopsByEquality(a, err) == err = NilErr \/ err # SkipSentinel(a)

\* HandlerChain.HandleResponse: err == nil || !errors.Is(err, ErrUnhandledResponse);
\* Endpoint.Do: handlerErr == nil, or not errors.Is(handlerErr, ErrSkipHandler)
LoopStops(a, err) == err = NilErr \/ ~ErrorsIs(err, SkipSentinel(a).type)

\* what the handler loop yields once every handler passed the response on
Exhausted(a) == IF a = "EndpointDo" THEN ErrNotHandled ELSE ErrUnhandledResponse

\* what a call of a handler yields: the error it returns, the body and the
\* value behind dst as it leaves them, and how often the wrapped handler ran
Outcome(err, b, tv, n) == [err |-> err, body |-> b, t |-> tv, invocations |-> n]

\* a handler that calls the wrapped handler before it looks at the condition
ConditionalHandlerCallsFirst(holds, b, tv, w) ==
    IF ~holds THEN Outcome(ErrUnhandledResponse, w.body, w.t, 1)
    ELSE Outcome(w.err, w.body, w.t, 1)

\* ConditionalHandler(cond, handler).HandleResponse(dst, resp): holds is
\* cond(resp), w the outcome of handler.HandleResponse(dst, resp)
ConditionalHandler(holds, b, tv, w) ==
    IF ~holds THEN Outcome(ErrUnhandledResponse, b, tv, 0)
    ELSE Outcome(w.err, w.body, w.t, 1)

\* StatusHandler(statusCode, handler) of httpc.go
StatusHandler(statusCode, rsp, b, tv, w) ==
    ConditionalHandler(rsp.status = statusCode, b, tv, w)

\* StatusHandler(statusCode, handler) of the Endpoint version
EndpointStatusHandler(statusCode, rsp, b, tv, w) ==
    IF rsp.status # statusCode THEN Outcome(ErrSkipHandler, b, tv, 0)
    ELSE Outcome(w.err, w.body, w.t, 1)

\* Content-Type values, written as pieces of text with each ';' a piece of its own
ProblemContentType == << "application/problem+json" >>

JSONContentType == << "application/json" >>

XMLContentType == << "application/xml" >>

\* value, _, _ = strings.Cut(value, ";"): the text before the first ';'
CutParameters(value) ==
    LET i == IndexFrom(value, ";", 1)
    IN  IF i = 0 THEN value ELSE SubSeq(value, 1, i - 1)

\* the condition of ContentTypeHandler: the header as it is, or without parameters
ContentTypeMatches(contentType, value) ==
    value = contentType \/ CutParameters(value) = contentType

ContentTypeHandler(contentType, rsp, b, tv, w) ==
    ConditionalHandler(ContentTypeMatches(contentType, rsp.contentType), b, tv, w)

\* what the decoders and Close do with a given body: whether the text decodes,
\* whether the decoder read up to EOF, whether Close returns an error
DecodeInputs == [decoded : BOOLEAN, drained : BOOLEAN, closeFails : BOOLEAN]

\* the body after a decoder has read from it
ReadBy(b, drained) ==
    IF ReadFails(b) THEN b ELSE [b EXCEPT !.unread = b.unread /\ ~drained]

\* "if cErr := resp.Body.Close(); cErr != nil && err == nil { err = cErr }"
DeferredClose(err, closeFails) ==
    IF err = NilErr /\ closeFails THEN Err("closeErr") ELSE err

\* the function inside ProblemHandler without its deferred Close
ProblemFuncNoClose(b, tv, in) ==
    Outcome(IF ~ReadFails(b) /\ in.decoded THEN Err("problem.Details")
            ELSE Err("decodeErr"),
            ReadBy(b, in.drained), tv, 1)

\* the function inside ProblemHandler: problem.From(resp), then the details
\* returned as the error, or the error of problem.From
ProblemFunc(b, tv, in) ==
    Outcome(DeferredClose(IF ~ReadFails(b) /\ in.decoded THEN Err("problem.Details")
                          ELSE Err("decodeErr"), in.closeFails),
            CloseBody(ReadBy(b, in.drained)), tv, 1)

ProblemHandler(rsp, b, tv, in) ==
    ContentTypeHandler(ProblemContentType, rsp, b, tv, ProblemFunc(b, tv, in))

\* json.UnmarshalRead(resp.Body, dst): reads up to EOF, writes through dst
UnmarshalJSONHandler(b, tv, in) ==
    LET ok == ~ReadFails(b) /\ in.decoded
    IN  Outcome(DeferredClose(IF ok THEN NilErr ELSE Err("decodeErr"), in.closeFails),
                CloseBody(ReadBy(b, ok \/ in.drained)), IF ok THEN "v" ELSE tv, 1)

\* xml.NewDecoder(resp.Body).Decode(dst): reads one element
UnmarshalXMLHandler(b, tv, in) ==
    LET ok == ~ReadFails(b) /\ in.decoded
    IN  Outcome(DeferredClose(IF ok THEN NilErr ELSE Err("decodeErr"), in.closeFails),
                CloseBody(ReadBy(b, in.drained)), IF ok THEN "v" ELSE tv, 1)

\* DiscardBodyHandler: discardBody(resp) and its error
DiscardBodyHandler(b, tv, in) ==
    Outcome(DeferredClose(IF ReadFails(b) THEN Err("readErr") ELSE NilErr,
                          in.closeFails),
            discardBody(b), tv, 1)

----------------------------------------------------------------------------
(* Results *)

Zero == "zero"

Ret(tv, rsp, rq, err) == [t |-> tv, resp |-> rsp, req |-> rq, err |-> err]

NoResult == Ret(Zero, "nil", "nil", NilErr)

\* FetchWithResponse returning t whatever the error
FetchWithResponseReturnsT(tv, rsp, err) == Ret(tv, rsp, "nil", err)

\* FetchWithResponse's return statements after Client.Do: the response is
\* returned also on error, the value only without error
FetchWithResponseResult(tv, rsp, err) ==
    IF err # NilErr THEN Ret(Zero, rsp, "nil", err) ELSE Ret(tv, rsp, "nil", NilErr)

\* Fetch: returns t and err of FetchWithResponse
FetchResult(r) == Ret(r.t, "nil", "nil", r.err)

\* Fetch's deferred call: if resp != nil { defer discardBody(resp) }
FetchDeferred(rsp, b) == IF rsp # "nil" THEN discardBody(b) ELSE b

\* Endpoint.Do returning the response also on error, as FetchWithResponse does
EndpointDoReturnsResp(tv, err) ==
    IF err # NilErr THEN Ret(Zero, "resp", "nil", err) ELSE Ret(tv, "resp", "nil", NilErr)

\* Endpoint.Do's return statements after client.Do succeeded
EndpointDoResult(tv, err) ==
    IF err # NilErr THEN Ret(Zero, "nil", "nil", err) ELSE Ret(tv, "resp", "nil", NilErr)

\* Endpoint.Do without its deferred Close
EndpointDoNoClose(b) == b

\* Endpoint.Do's deferred call: defer resp.Body.Close()
EndpointDoDeferred(b) == CloseBody(b)

\* Client.Do returned an error: Endpoint.Do drops the response, FetchWithResponse
\* returns it, Fetch discards the body of a response it got back
ReturnOnDoError(a, rsp, err, b) ==
    CASE a = "EndpointDo" ->
            [result |-> Ret(Zero, "nil", "nil", err), body |-> b]
      [] a = "Fetch" ->
            [result |-> FetchResult(Ret(Zero, rsp, "nil", err)),
             body |-> FetchDeferred(rsp, b)]
      [] OTHER ->
            [result |-> Ret(Zero, rsp, "nil", err), body |-> b]

\* the call returns after Client.Do: the result and the body its deferred calls leave
ReturnAfterDo(a, tv, rsp, err, b) ==
    CASE a = "EndpointDo" ->
            [result |-> EndpointDoResult(tv, err), body |-> EndpointDoDeferred(b)]
      [] a = "Fetch" ->
            [result |-> FetchResult(FetchWithResponseResult(tv, rsp, err)),
             body |-> FetchDeferred(rsp, b)]
      [] OTHER ->
            [result |-> FetchWithResponseResult(tv, rsp, err), body |-> b]

----------------------------------------------------------------------------
(* Inputs *)

SeqsUpTo(S, n) == UNION { [1..k -> S] : k \in 0..n }

\* the url argument: http.NewRequestWithContext fails on an invalid one
\* (TestNewRequest_WithInvalidURL), otherwise it yields URL.Path and RawQuery
Urls(syntax) ==
    { [valid |-> TRUE, scheme |-> << "https" >>, user |-> << >>,
       host |-> << "example.com" >>,
       path |-> << "/" >> \o Placeholder(syntax, << "i" >>),
       rawQuery |-> << >>],
      [valid |-> TRUE, scheme |-> << "https" >>, user |-> << >>,
       host |-> << "example.com" >>,
       path |-> << "/", "a" >> \o Placeholder(syntax, << "i" >>),
       rawQuery |-> << << << "k" >>, << "0" >> >> >>],
      [valid |-> FALSE, scheme |-> << >>, user |-> << >>, host |-> << >>,
       path |-> << >>, rawQuery |-> << >>] }

\* what Client.Do returns: a response, a transport error, or (a failed
\* redirect check) a response whose body the client already closed and an error
SendOutcomes ==
    { [resp |-> "resp", err |-> NilErr,
       body |-> [kind |-> k, unread |-> TRUE, closed |-> FALSE]] : k \in BodyKinds }
    \cup { [resp |-> "nil", err |-> Err("transportErr"), body |-> NoBody] }
    \cup { [resp |-> "resp", err |-> Err("redirectErr"),
            body |-> [kind |-> "http", unread |-> TRUE, closed |-> TRUE]] }

inputs == << api, url, eOptions, opts, handlerKind, nHandlers >>

----------------------------------------------------------------------------
(* The calls *)

Init ==
    /\ api \in Apis
    /\ url \in Urls(Syntax(api))
    /\ eOptions \in IF api = "EndpointDo"
                    THEN SeqsUpTo(OptionSet, MaxOpts) ELSE { << >> }
    /\ opts \in SeqsUpTo(OptionSet, MaxOpts - Len(eOptions))
    /\ mergedOpts = IF api = "EndpointDo" THEN << >> ELSE opts
    /\ pc = IF api = "EndpointDo" THEN "merge" ELSE "create"
    /\ handlerKind \in CASE api = "NewRequest" -> { "none" }
                         [] api = "EndpointDo" -> { "chain" }
                         [] OTHER -> { "chain", "func" }
    /\ nHandlers \in CASE handlerKind = "chain" -> 0..MaxHandlers
                       [] handlerKind = "func" -> { 1 }
                       [] OTHER -> { 0 }
    /\ optIdx = 1
    /\ req = NoReq
    /\ applied = << >>
    /\ sent = 0
    /\ hIdx = 1
    /\ calls = << >>
    /\ body = NoBody
    /\ t = Zero
    /\ result = NoResult
    /\ resp = NoResp
    /\ dispatch = << >>

\* Endpoint.Do: the options of the endpoint and of the call become one list
DoMergeOptions ==
    /\ pc = "merge"
    /\ mergedOpts' = MergeOptions(eOptions, opts)
    /\ pc' = "create"
    /\ UNCHANGED << inputs, resp, dispatch, optIdx, req, applied, sent, hIdx, calls, body, t, result >>

\* http.NewRequestWithContext(ctx, method, url, nil) and the check of its error
CreateRequest ==
    /\ pc = "create"
    /\ IF url.valid
       THEN /\ req' = NewRequestWithContext(url)
            /\ pc' = "opts"
            /\ UNCHANGED result
       ELSE /\ result' = Ret(Zero, "nil", "nil", Err("urlErr"))
            /\ pc' = "done"
            /\ UNCHANGED req
    /\ UNCHANGED << inputs, resp, dispatch, mergedOpts, optIdx, applied, sent, hIdx, calls, body, t >>

\* one iteration of "for _, opt := range opts": the option runs, its error
\* ends the call
ApplyOption ==
    /\ pc = "opts"
    /\ optIdx <= Len(mergedOpts)
    /\ LET o == mergedOpts[optIdx]
           r == RunOption(Syntax(api), o, req)
       IN  /\ applied' = Append(applied,
                            [idx |-> optIdx, opt |-> o, before |-> req, err |-> r.err])
           /\ req' = r.req
           /\ IF OptionLoopEnds(r.err)
              THEN /\ result' = Ret(Zero, "nil", "nil", r.err)
                   /\ pc' = "done"
                   /\ UNCHANGED optIdx
              ELSE /\ optIdx' = optIdx + 1
                   /\ UNCHANGED << result, pc >>
    /\ UNCHANGED << inputs, resp, dispatch, mergedOpts, sent, hIdx, calls, body, t >>

\* NewRequest: return req, nil
ReturnRequest ==
    /\ pc = "opts"
    /\ optIdx > Len(mergedOpts)
    /\ api = "NewRequest"
    /\ result' = Ret(Zero, "nil", "req", NilErr)
    /\ pc' = "done"
    /\ UNCHANGED << inputs, resp, dispatch, mergedOpts, optIdx, req, applied, sent, hIdx, calls, body, t >>

\* resp, err := client.Do(req) and the check of its error
ClientDo ==
    /\ pc = "opts"
    /\ optIdx > Len(mergedOpts)
    /\ api # "NewRequest"
    /\ sent' = sent + 1
    /\ \E out \in SendOutcomes :
         IF out.err # NilErr
         THEN LET r == ReturnOnDoError(api, out.resp, out.err, out.body)
              IN  /\ result' = r.result
                  /\ body' = r.body
                  /\ pc' = "done"
         ELSE /\ body' = out.body
              /\ pc' = "handle"
              /\ UNCHANGED result
    /\ UNCHANGED << inputs, resp, dispatch, mergedOpts, optIdx, req, applied, hIdx, calls, t >>

\* one handler is given the response: an iteration of the loop of
\* HandlerChain.HandleResponse or of Endpoint.Do, or the call of a single Handler
InvokeHandler ==
    /\ pc = "handle"
    /\ hIdx <= nHandlers
    /\ \E err \in HandlerRets(api), effect \in BodyEffects, write \in BOOLEAN :
         LET b1 == ApplyEffect(body, effect)
             t1 == IF write THEN "v" ELSE t
         IN  /\ calls' = Append(calls, [idx |-> hIdx, ret |-> err, effect |-> effect])
             /\ t' = t1
             /\ IF handlerKind = "func" \/ LoopStops(api, err)
                THEN LET r == ReturnAfterDo(api, t1, "resp", err, b1)
                     IN  /\ result' = r.result
                         /\ body' = r.body
                         /\ pc' = "done"
                         /\ UNCHANGED hIdx
                ELSE /\ hIdx' = hIdx + 1
                     /\ body' = b1
                     /\ UNCHANGED << result, pc >>
    /\ UNCHANGED << inputs, resp, dispatch, mergedOpts, optIdx, req, applied, sent >>

\* the handler loop ran out of handlers
NoHandlerLeft ==
    /\ pc = "handle"
    /\ hIdx > nHandlers
    /\ LET r == ReturnAfterDo(api, t, "resp", Exhausted(api), body)
       IN  /\ result' = r.result
           /\ body' = r.body
    /\ pc' = "done"
    /\ UNCHANGED << inputs, resp, dispatch, mergedOpts, optIdx, req, applied, sent, hIdx, calls, t >>

Next ==
    \/ DoMergeOptions
    \/ CreateRequest
    \/ ApplyOption
    \/ ReturnRequest
    \/ ClientDo
    \/ InvokeHandler
    \/ NoHandlerLeft

Spec == Init /\ [][Next]_vars

----------------------------------------------------------------------------
(* WithPathValue invoked directly on a request, over generated paths *)

\* the segments generated paths are made of: empty, a placeholder, plain text,
\* and a placeholder with text before or after it
PathSegments(syntax) ==
    { << >>, << "a" >>,
      Placeholder(syntax, << "i" >>), Placeholder(syntax, << "j" >>),
      << "a" >> \o Placeholder(syntax, << "i" >>),
      Placeholder(syntax, << "i" >>) \o << "a" >> }

RECURSIVE Join(_)
Join(segs) ==
    IF Len(segs) = 1 THEN segs[1] ELSE segs[1] \o << "/" >> \o Join(Tail(segs))

Paths(syntax) ==
    { Join(segs) : segs \in UNION { [1..n -> PathSegments(syntax)] : n \in 1..MaxSegments } }

PathNames == { << "i" >>, << "j" >> }

PathValues == { << "v" >>, << "a", "/", "b" >>, << "$", "1" >>, << ":", "i" >> }

\* the URLs the option is tried on: a plain one, and one whose user info and
\* query (and a header set from it) repeat the placeholder of the path
\* ("Only in path": https://:key@example.com/:key/)
PathUrls(syntax) ==
    { [valid |-> TRUE, scheme |-> << "https" >>, user |-> u[1],
       host |-> << "example.com" >>, path |-> p, rawQuery |-> u[2]] :
          p \in Paths(syntax),
          u \in { << << >>, << >> >>,
                  << Placeholder(syntax, << "i" >>),
                     << << << "k" >>, Placeholder(syntax, << "i" >>) >> >> >> } }

InitPath ==
    /\ api \in { "FetchWithResponse", "NewRequest" }
    /\ url \in PathUrls(Syntax(api))
    /\ req = IF url.user = << >> THEN NewRequestWithContext(url)
             ELSE WithHeader(NewRequestWithContext(url), << "b" >>, url.user)
    /\ pc = "option"
    /\ eOptions = << >>
    /\ opts = << >>
    /\ mergedOpts = << >>
    /\ handlerKind = "none"
    /\ nHandlers = 0
    /\ optIdx = 1
    /\ applied = << >>
    /\ sent = 0
    /\ hIdx = 1
    /\ calls = << >>
    /\ body = NoBody
    /\ t = Zero
    /\ result = NoResult
    /\ resp = NoResp
    /\ dispatch = << >>

\* WithPathValue(name, value)(req): the option is called on the request
InvokePathValue ==
    /\ pc = "option"
    /\ Len(applied) < MaxPathSteps
    /\ \E name \in PathNames, value \in PathValues :
         LET r == WithPathValue(Syntax(api), req, name, value)
         IN  /\ applied' = Append(applied,
                              [idx |-> Len(applied) + 1,
                               opt |-> Option("WithPathValue", name, value),
                               before |-> req, err |-> r.err])
             /\ req' = r.req
             /\ result' = Ret(Zero, "nil", "nil", r.err)
    /\ UNCHANGED << inputs, resp, dispatch, pc, mergedOpts, optIdx, sent, hIdx, calls, body, t >>

NextPath == InvokePathValue

SpecPath == InitPath /\ [][NextPath]_vars

----------------------------------------------------------------------------
(* The Set-style and Add-style options, applied to a new request in any order *)

MaxValueOps == 2     \* most header, trailer and query options on one request

\* URLs with no query, one value, and two keys with a repeated key
ValueUrls ==
    { [valid |-> TRUE, scheme |-> << "https" >>, user |-> << >>,
       host |-> << "example.com" >>, path |-> << "/" >>, rawQuery |-> q] :
          q \in { << >>,
                  << << << "k" >>, << "0" >> >> >>,
                  << << << "k" >>, << "0" >> >>, << << "a" >>, << "0" >> >>,
                     << << "k" >>, << "9" >> >> >> } }

\* header and trailer names as callers write them, and the values given
HeaderNames == { << "b" >>, << "x", "-", "a" >>, << "X", "-", "A" >> }

OptionValues == { << "1" >>, << "2" >> }

InitValues ==
    /\ api \in { "FetchWithResponse", "NewRequest" }
    /\ url \in ValueUrls
    /\ req = NewRequestWithContext(url)
    /\ pc = "option"
    /\ eOptions = << >>
    /\ opts = << >>
    /\ mergedOpts = << >>
    /\ handlerKind = "none"
    /\ nHandlers = 0
    /\ optIdx = 1
    /\ applied = << >>
    /\ sent = 0
    /\ hIdx = 1
    /\ calls = << >>
    /\ body = NoBody
    /\ t = Zero
    /\ result = NoResult
    /\ resp = NoResp
    /\ dispatch = << >>

\* opt(req) for the option o
InvokeOption(o) ==
    LET r == RunOption(Syntax(api), o, req)
    IN  /\ pc = "option"
        /\ Len(applied) < MaxValueOps
        /\ applied' = Append(applied, [idx |-> Len(applied) + 1, opt |-> o,
                                       before |-> req, err |-> r.err])
        /\ req' = r.req
        /\ result' = Ret(Zero, "nil", "nil", r.err)
        /\ UNCHANGED << inputs, resp, dispatch, pc, mergedOpts, optIdx, sent, hIdx, calls, body, t >>

InvokeQueryOption ==
    \E op \in { "WithQueryParam", "WithAddedQueryParam" },
       n \in 1..Len(QueryKeys), value \in OptionValues :
        InvokeOption(Option(op, QueryKeys[n], value))

InvokeHeaderOption ==
    \E op \in { "WithHeader", "WithAddedHeader" },
       key \in HeaderNames, value \in OptionValues :
        InvokeOption(Option(op, key, value))

\* the trailer options exist in the Endpoint version of the package only
InvokeTrailerOption ==
    /\ api = "NewRequest"
    /\ \E op \in { "WithTrailer", "WithAddedTrailer" },
          key \in HeaderNames, value \in OptionValues :
           InvokeOption(Option(op, key, value))

NextValues == InvokeQueryOption \/ InvokeHeaderOption \/ InvokeTrailerOption

SpecValues == InitValues /\ [][NextValues]_vars

----------------------------------------------------------------------------
(* ConditionalHandler and StatusHandler around a counting handler, called
   again and again (TestConditionalHandler, TestStatusHandler) *)

MaxCalls == 3        \* most calls of the handler under test

StatusOK == 200

StatusCreated == 201

StatusNotFound == 404

InitDispatch ==
    /\ api \in { "FetchWithResponse", "EndpointDo" }
    /\ handlerKind \in IF api = "EndpointDo" THEN { "StatusHandler" }
                       ELSE { "ConditionalHandler", "StatusHandler" }
    /\ url = [valid |-> FALSE, scheme |-> << >>, user |-> << >>, host |-> << >>,
              path |-> << >>, rawQuery |-> << >>]
    /\ req = NoReq
    /\ pc = "handle"
    /\ eOptions = << >>
    /\ opts = << >>
    /\ mergedOpts = << >>
    /\ nHandlers = 1
    /\ optIdx = 1
    /\ applied = << >>
    /\ sent = 0
    /\ hIdx = 1
    /\ calls = << >>
    /\ body = NoBody
    /\ t = Zero
    /\ result = NoResult
    /\ resp = NoResp
    /\ dispatch = << >>

\* the handler under test returned o for the response rsp
Dispatched(rsp, holds, statusCode, ret, o) ==
    /\ resp' = rsp
    /\ dispatch' = Append(dispatch, [holds |-> holds, statusCode |-> statusCode,
                                     status |-> rsp.status, ret |-> ret, err |-> o.err])
    /\ calls' = calls \o [k \in 1..o.invocations |->
                            [idx |-> Len(dispatch) + 1, ret |-> ret, effect |-> "none"]]
    /\ body' = o.body
    /\ t' = o.t
    /\ result' = Ret(Zero, "nil", "nil", o.err)
    /\ UNCHANGED << inputs, pc, req, mergedOpts, optIdx, applied, sent, hIdx >>

\* handler.HandleResponse(dst, resp) on ConditionalHandler(cond, wrapped): the
\* condition is a function of the caller, its answer may differ from call to call
CallConditionalHandler ==
    /\ pc = "handle"
    /\ handlerKind = "ConditionalHandler"
    /\ Len(dispatch) < MaxCalls
    /\ \E holds \in BOOLEAN, ret \in HandlerRets(api) :
          Dispatched([status |-> StatusOK, contentType |-> << >>], holds, 0, ret,
                     ConditionalHandler(holds, body, t, Outcome(ret, body, t, 1)))

\* StatusHandler(statusCode, wrapped).HandleResponse(dst, resp), in both versions
CallStatusHandler ==
    /\ pc = "handle"
    /\ handlerKind = "StatusHandler"
    /\ Len(dispatch) < MaxCalls
    /\ \E statusCode \in { StatusOK, StatusCreated },
          status \in { StatusOK, StatusNotFound }, ret \in HandlerRets(api) :
          LET rsp == [status |-> status, contentType |-> << >>]
              w == Outcome(ret, body, t, 1)
          IN  Dispatched(rsp, status = statusCode, statusCode, ret,
                         IF api = "EndpointDo"
                         THEN EndpointStatusHandler(statusCode, rsp, body, t, w)
                         ELSE StatusHandler(statusCode, rsp, body, t, w))

NextDispatch == CallConditionalHandler \/ CallStatusHandler

SpecDispatch == InitDispatch /\ [][NextDispatch]_vars

----------------------------------------------------------------------------
(* A response handled by ProblemHandler alone (TestProblemHandler) or by the
   DefaultHandlers of Fetch / FetchWithResponse *)

StatusNoContent == 204

StatusNotModified == 304

\* the Content-Type headers of the responses: none, the three types with and
\* without parameters, a type no entry names, and a type with a space before ';'
ContentTypes ==
    { << >>,
      ProblemContentType,
      ProblemContentType \o << ";", " charset=utf-8" >>,
      JSONContentType,
      JSONContentType \o << ";", " charset=utf-8" >>,
      XMLContentType,
      << "text/plain" >>,
      << "application/json ", ";", " charset=utf-8" >> }

Statuses == { StatusOK, StatusNoContent, StatusNotModified, StatusNotFound }

\* an entry of a handler chain: ContentTypeHandler(contentType, handler) or
\* StatusHandler(status, handler)
ByContentType(contentType, handler) ==
    [by |-> "contentType", contentType |-> contentType, status |-> 0,
     handler |-> handler]

ByStatus(status, handler) ==
    [by |-> "status", contentType |-> << >>, status |-> status, handler |-> handler]

\* the chain with the status entries in front of the content-type entries
DefaultHandlersStatusFirst ==
    << ByStatus(StatusNoContent, "DiscardBodyHandler"),
       ByStatus(StatusNotModified, "DiscardBodyHandler"),
       ByContentType(ProblemContentType, "ProblemHandler"),
       ByContentType(JSONContentType, "UnmarshalJSONHandler"),
       ByContentType(XMLContentType, "UnmarshalXMLHandler") >>

DefaultHandlers ==
    << ByContentType(ProblemContentType, "ProblemHandler"),
       ByContentType(JSONContentType, "UnmarshalJSONHandler"),
       ByContentType(XMLContentType, "UnmarshalXMLHandler"),
       ByStatus(StatusNoContent, "DiscardBodyHandler"),
       ByStatus(StatusNotModified, "DiscardBodyHandler") >>

\* h[i].HandleResponse(dst, resp) for an entry of the chain
EntryOutcome(e, rsp, b, tv, in) ==
    LET w == CASE e.handler = "ProblemHandler" -> ProblemFunc(b, tv, in)
               [] e.handler = "UnmarshalJSONHandler" -> UnmarshalJSONHandler(b, tv, in)
               [] e.handler = "UnmarshalXMLHandler" -> UnmarshalXMLHandler(b, tv, in)
               [] OTHER -> DiscardBodyHandler(b, tv, in)
    IN  IF e.by = "contentType"
        THEN ContentTypeHandler(e.contentType, rsp, b, tv, w)
        ELSE StatusHandler(e.status, rsp, b, tv, w)

\* HandlerChain.HandleResponse from entry i on: the error returned, the body and
\* the value left behind, and the entries whose handler ran
RECURSIVE HandleResponse(_, _, _, _, _, _)
HandleResponse(h, i, rsp, b, tv, in) ==
    IF i > Len(h)
    THEN [err |-> Exhausted("Fetch"), body |-> b, t |-> tv, ran |-> << >>]
    ELSE LET o == EntryOutcome(h[i], rsp, b, tv, in)
             ran == [k \in 1..o.invocations |->
                        [idx |-> i, ret |-> o.err, handler |-> h[i].handler]]
         IN  IF LoopStops("Fetch", o.err)
             THEN [err |-> o.err, body |-> o.body, t |-> o.t, ran |-> ran]
             ELSE LET rest == HandleResponse(h, i + 1, rsp, o.body, o.t, in)
                  IN  [rest EXCEPT !.ran = ran \o @]

InitDefault ==
    /\ api \in { "Fetch", "FetchWithResponse" }
    /\ handlerKind \in { "ProblemHandler", "DefaultHandlers" }
    /\ url = [valid |-> TRUE, scheme |-> << "https" >>, user |-> << >>,
              host |-> << "example.com" >>, path |-> << "/" >>, rawQuery |-> << >>]
    /\ req = NewRequestWithContext(url)
    /\ pc = "send"
    /\ eOptions = << >>
    /\ opts = << >>
    /\ mergedOpts = << >>
    /\ nHandlers = 1
    /\ optIdx = 1
    /\ applied = << >>
    /\ sent = 0
    /\ hIdx = 1
    /\ calls = << >>
    /\ body = NoBody
    /\ t = Zero
    /\ result = NoResult
    /\ resp = NoResp
    /\ dispatch = << >>

\* Client.Do returned a response: its status, its Content-Type and its body
ReceiveResponse ==
    /\ pc = "send"
    /\ \E status \in Statuses, ct \in ContentTypes, kind \in BodyKinds :
          /\ resp' = [status |-> status, contentType |-> ct]
          /\ body' = [kind |-> kind, unread |-> TRUE, closed |-> FALSE]
    /\ sent' = sent + 1
    /\ pc' = "handle"
    /\ UNCHANGED << inputs, dispatch, mergedOpts, optIdx, req, applied, hIdx, calls, t,
                    result >>

\* ProblemHandler().HandleResponse(nil, resp), called directly
CallProblemHandler ==
    /\ pc = "handle"
    /\ handlerKind = "ProblemHandler"
    /\ \E in \in DecodeInputs :
          LET o == ProblemHandler(resp, body, t, in)
          IN  /\ calls' = calls \o [k \in 1..o.invocations |->
                                    [idx |-> 1, ret |-> o.err, effect |-> "close"]]
              /\ body' = o.body
              /\ t' = o.t
              /\ result' = Ret(Zero, "nil", "nil", o.err)
    /\ pc' = "done"
    /\ UNCHANGED << inputs, resp, dispatch, mergedOpts, optIdx, req, applied, sent, hIdx >>

\* fetchCtx.Handler.HandleResponse(&t, resp) with the DefaultHandlers, and the
\* return of FetchWithResponse / Fetch
HandleByDefault ==
    /\ pc = "handle"
    /\ handlerKind = "DefaultHandlers"
    /\ \E in \in DecodeInputs :
          LET o == HandleResponse(DefaultHandlers, 1, resp, body, t, in)
              r == ReturnAfterDo(api, o.t, "resp", o.err, o.body)
          IN  /\ calls' = calls \o o.ran
              /\ t' = o.t
              /\ result' = r.result
              /\ body' = r.body
    /\ pc' = "done"
    /\ UNCHANGED << inputs, resp, dispatch, mergedOpts, optIdx, req, applied, sent, hIdx >>

NextDefault == ReceiveResponse \/ CallProblemHandler \/ HandleByDefault

SpecDefault == InitDefault /\ [][NextDefault]_vars

----------------------------------------------------------------------------
(* Properties *)

Last(seq) == seq[Len(seq)]

\* a handler result that passes the response on: the sentinel or an error wrapping it
IsSkipResult(e) == e \in { SkipSentinel(api), Wrapping(SkipSentinel(api).type) }

\* Client.Do returned an error
DoFailed == result.err.type \in { "transportErr", "redirectErr" }

\* the call is over and its handlers were given the response
HandlersRan == pc = "done" /\ sent = 1 /\ ~DoFailed

\* C1: the handlers of a HandlerChain (and of Endpoint.Handlers) are invoked from
\* first to last, each at most once; a handler is invoked only if every handler
\* before it passed the response on; the first result that is nil or an error
\* other than the skip sentinel ends the call, which returns exactly that result.
C1_OrderedShortCircuit ==
    handlerKind = "chain" =>
        /\ Len(calls) <= nHandlers
        /\ \A k \in 1..Len(calls) : calls[k].idx = k
        /\ \A k \in 1..(Len(calls) - 1) : IsSkipResult(calls[k].ret)
        /\ (calls # << >> /\ ~IsSkipResult(Last(calls).ret)) =>
              (pc = "done" /\ result.err = Last(calls).ret)

C1_Witness ==
    /\ handlerKind = "chain"
    /\ nHandlers = 2
    /\ pc = "done"
    /\ Len(calls) = 1
    /\ calls[1].ret = Err("errTest")
    /\ result.err = Err("errTest")

\* C2: a HandlerChain none of whose invoked handlers returned anything but an
\* error matching ErrUnhandledResponse (the empty chain included) has invoked
\* every handler once, in order, and returns ErrUnhandledResponse itself.
C2_UnhandledIsSentinel ==
    (/\ api \in { "Fetch", "FetchWithResponse" }
     /\ handlerKind = "chain"
     /\ HandlersRan
     /\ \A k \in 1..Len(calls) : IsSkipResult(calls[k].ret)) =>
        /\ result.err = ErrUnhandledResponse
        /\ Len(calls) = nHandlers
        /\ \A k \in 1..Len(calls) : calls[k].idx = k

C2_Witness ==
    /\ api = "FetchWithResponse"
    /\ handlerKind = "chain"
    /\ pc = "done"
    /\ nHandlers = 2
    /\ Len(calls) = 2
    /\ calls[1].ret = ErrUnhandledResponse
    /\ calls[2].ret = Wrapping("ErrUnhandledResponse")
    /\ result.err = ErrUnhandledResponse

\* C3: Fetch, FetchWithResponse and NewRequest apply the given options in order
\* and only to a created request; when creation fails no option runs; when an
\* option fails no later option runs, Client.Do is not called, and the call
\* returns that error with nil request and response and the zero value.
C3_OptionsInOrderUntilError ==
    api # "EndpointDo" =>
        /\ \A k \in 1..Len(applied) :
              /\ applied[k].idx = k
              /\ k <= Len(opts)
              /\ applied[k].opt = opts[k]
              /\ applied[k].before # NoReq
        /\ \A k \in 1..(Len(applied) - 1) : applied[k].err = NilErr
        /\ ~url.valid => applied = << >>
        /\ (applied # << >> /\ Last(applied).err # NilErr) =>
              /\ pc = "done"
              /\ sent = 0
              /\ result = Ret(Zero, "nil", "nil", Last(applied).err)
        /\ sent > 0 => Len(applied) = Len(opts)

C3_Witness ==
    /\ api = "Fetch"
    /\ Len(opts) = 2
    /\ Len(applied) = 1
    /\ applied[1].err = Err("optErr")
    /\ pc = "done"
    /\ sent = 0
    /\ result.err = Err("optErr")

\* C4 as stated: once the client returned a response, its body is drained and
\* closed when Fetch returns.
C4_DrainedAndClosed ==
    (api = "Fetch" /\ pc = "done" /\ body # NoBody) =>
        (body.closed /\ ~body.unread)

\* C4, amended: once the client returned a response, its body is closed when
\* Fetch returns, whatever the handlers did; it is drained as well unless reading
\* it fails: every Read returns an error, or it is a net/http body that the
\* client or a handler closed before it was read to the end.
C4_ClosedAndDrainedIfReadable ==
    (api = "Fetch" /\ pc = "done" /\ body # NoBody) =>
        /\ body.closed
        /\ body.unread =>
              \/ body.kind = "error"
              \/ /\ body.kind = "http"
                 /\ \/ result.err.type = "redirectErr"
                    \/ \E k \in 1..Len(calls) : calls[k].effect = "close"

C4_Witness ==
    /\ api = "Fetch"
    /\ pc = "done"
    /\ body.kind = "http"
    /\ Len(calls) = 2
    /\ \A k \in 1..Len(calls) : calls[k].effect = "none"
    /\ result.err = ErrUnhandledResponse
    /\ body.closed
    /\ ~body.unread

\* C5: Endpoint.Do has closed the body of a response it received when it
\* returns: handled, handler error, every handler skipped, no handler at all.
C5_EndpointClosesBody ==
    (api = "EndpointDo" /\ pc = "done" /\ body # NoBody) => body.closed

C5_Witness ==
    /\ api = "EndpointDo"
    /\ pc = "done"
    /\ nHandlers = 2
    /\ Len(calls) = 2
    /\ \A k \in 1..Len(calls) : calls[k].effect = "none"
    /\ result.err = ErrNotHandled
    /\ body.closed

\* C6: FetchWithResponse returns the response it received also when the handler
\* fails: the same response, the handler's error unchanged and the zero value,
\* whatever the handler wrote into dst; without error it returns the value the
\* handler wrote and the response.
C6_ResponseReturnedOnError ==
    (api = "FetchWithResponse" /\ HandlersRan) =>
        /\ result.resp = "resp"
        /\ handlerKind = "func" => result.err = calls[1].ret
        /\ (handlerKind = "chain" /\ calls # << >> /\ ~IsSkipResult(Last(calls).ret)) =>
              result.err = Last(calls).ret
        /\ result.err # NilErr => result.t = Zero
        /\ result.err = NilErr => result.t = t

C6_Witness ==
    /\ api = "FetchWithResponse"
    /\ handlerKind = "func"
    /\ pc = "done"
    /\ t = "v"
    /\ calls[1].ret = Err("errTest")
    /\ result = Ret(Zero, "resp", "nil", Err("errTest"))

\* C7: Endpoint.Do returns a non-nil error exactly when it returns a nil
\* response, and then the zero value: the request-creation error, the option's
\* error, the transport error, a handler's error that is not ErrSkipHandler
\* (unchanged), ErrNotHandled when no handler is left; a response is returned
\* only when a handler returned nil.
C7_EndpointErrorOrResponse ==
    (api = "EndpointDo" /\ pc = "done") =>
        /\ (result.err # NilErr) <=> (result.resp = "nil")
        /\ result.err # NilErr => result.t = Zero
        /\ ~url.valid => result.err = Err("urlErr")
        /\ (applied # << >> /\ Last(applied).err # NilErr) =>
              result.err = Last(applied).err
        /\ (sent = 1 /\ body = NoBody) => result.err = Err("transportErr")
        /\ (calls # << >> /\ ~IsSkipResult(Last(calls).ret)) =>
              result.err = Last(calls).ret
        /\ (HandlersRan /\ \A k \in 1..Len(calls) : IsSkipResult(calls[k].ret)) =>
              result.err = ErrNotHandled
        /\ result.resp # "nil" => (calls # << >> /\ Last(calls).ret = NilErr)

C7_Witness ==
    /\ api = "EndpointDo"
    /\ pc = "done"
    /\ Len(calls) = 2
    /\ calls[2].ret = Err("errTest")
    /\ t = "v"
    /\ result = Ret(Zero, "nil", "nil", Err("errTest"))

\* the values a key holds after the options os, starting from the values init:
\* WithQueryParam leaves its value alone, WithAddedQueryParam appends its value
RECURSIVE ExpectedValues(_, _, _)
ExpectedValues(init, os, key) ==
    IF os = << >> THEN init
    ELSE LET o == Head(os)
             next == IF o.key # key THEN init
                     ELSE IF o.op = "WithQueryParam" THEN << o.value >>
                     ELSE IF o.op = "WithAddedQueryParam" THEN Append(init, o.value)
                     ELSE init
         IN  ExpectedValues(next, Tail(os), key)

\* C8: Endpoint.Do applies the endpoint's Options, in order, and then the
\* options of the call, in order; the request it sends holds, for each query
\* key, the values that this order of Set and Add options yields.
C8_EndpointOptionsFirst ==
    api = "EndpointDo" =>
        LET all == eOptions \o opts
        IN  /\ \A k \in 1..Len(applied) :
                  /\ applied[k].idx = k
                  /\ k <= Len(all)
                  /\ applied[k].opt = all[k]
            /\ sent > 0 =>
                  /\ Len(applied) = Len(all)
                  /\ \A n \in 1..Len(QueryKeys) :
                        Query(req.rawQuery)[n] =
                            ExpectedValues(ValuesOf(url.rawQuery, QueryKeys[n]),
                                           all, QueryKeys[n])

C8_Witness ==
    /\ api = "EndpointDo"
    /\ eOptions = << Option("WithQueryParam", << "k" >>, << "1" >>) >>
    /\ opts = << Option("WithAddedQueryParam", << "k" >>, << "2" >>) >>
    /\ sent = 1
    /\ Query(req.rawQuery)[KeyIndex(<< "k" >>)] = << << "1" >>, << "2" >> >>

\* no segment of path is the placeholder
NoWholeSegment(path, ph) == \A k \in 1..Len(Segments(path)) : Segments(path)[k] # ph

\* C9: after WithPathValue(name, value) returned nil, no segment of the request
\* path is the placeholder for name.
C9_NoPlaceholderSegmentLeft ==
    (applied # << >> /\ Last(applied).err = NilErr) =>
        NoWholeSegment(req.path, Placeholder(Syntax(api), Last(applied).opt.key))

\* C10: WithPathValue on a path none of whose segments is the placeholder for
\* name returns UnusedPathValueError / MissingPathValueError with the name, the
\* value and the path of that moment, leaves the path as it is, and the call
\* around it ends with that error, without a request.
C10_MissingPlaceholderIsError ==
    \A k \in 1..Len(applied) :
        LET e == applied[k]
        IN  (/\ e.opt.op = "WithPathValue"
             /\ NoWholeSegment(e.before.path, Placeholder(Syntax(api), e.opt.key))) =>
                /\ e.err.type = IF Syntax(api) = "brace"
                                THEN "UnusedPathValueError" ELSE "MissingPathValueError"
                /\ e.err.name = e.opt.key
                /\ e.err.value = e.opt.value
                /\ ErrorPath(e.err, req) = e.before.path
                /\ req.path = e.before.path
                /\ k = Len(applied)
                /\ pc = "done"
                /\ sent = 0
                /\ result = Ret(Zero, "nil", "nil", e.err)

C10_Witness ==
    /\ pc = "done"
    /\ url.path = << "/", "a", ":", "i" >>
    /\ applied # << >>
    /\ Last(applied).opt.op = "WithPathValue"
    /\ Last(applied).err.type = "MissingPathValueError"
    /\ Last(applied).err.path = << "/", "a", ":", "i" >>
    /\ result.req = "nil"

\* the segments after a substitution that puts text in place of every matched
\* placeholder segment and leaves every other segment alone; a placeholder
\* directly after a matched one is not matched (see C9)
RECURSIVE SubstitutedSegments(_, _, _, _)
SubstitutedSegments(segs, ph, text, prevMatched) ==
    IF segs = << >> THEN << >>
    ELSE LET matched == Head(segs) = ph /\ ~prevMatched
         IN  << IF matched THEN text ELSE Head(segs) >>
             \o SubstitutedSegments(Tail(segs), ph, text, matched)

\* C11: a WithPathValue(name, value) that returned nil has replaced each matched
\* placeholder segment by url.PathEscape(value), whatever value holds; every
\* other segment and the number of segments are as before.
C11_SubstitutesEscapedValue ==
    (applied # << >> /\ Last(applied).err = NilErr) =>
        LET e == Last(applied)
            before == Segments(e.before.path)
        IN  /\ Segments(req.path) =
                  SubstitutedSegments(before, Placeholder(Syntax(api), e.opt.key),
                                      PathEscape(e.opt.value), FALSE)
            /\ Len(Segments(req.path)) = Len(before)

\* the same, for the values without '$'
C11_HoldsWithoutDollar ==
    (applied # << >> /\ Last(applied).err = NilErr
        /\ IndexFrom(Last(applied).opt.value, "$", 1) = 0) =>
            C11_SubstitutesEscapedValue

\* C12: WithPathValue changes nothing but the URL path: scheme, user info,
\* host, query, headers (and trailers) of the request are as before the call,
\* also when they hold the text of the placeholder.
C12_OnlyPathChanges ==
    applied # << >> =>
        LET b == Last(applied).before
        IN  /\ req.scheme = b.scheme
            /\ req.user = b.user
            /\ req.host = b.host
            /\ req.rawQuery = b.rawQuery
            /\ req.header = b.header
            /\ req.trailer = b.trailer

\* a successful replacement in a request whose user info, query and header
\* hold the placeholder that was replaced in the path
C12_Witness ==
    /\ applied # << >>
    /\ Last(applied).err = NilErr
    /\ LET b == Last(applied).before
           ph == Placeholder(Syntax(api), Last(applied).opt.key)
       IN  /\ req.path # b.path
           /\ req.user = ph
           /\ ValuesOf(req.rawQuery, << "k" >>) = << ph >>
           /\ req.header[HeaderIndex(<< "b" >>)] = << ph >>

\* the store an option writes to, and whether it is Set-style
StoreOf(op) ==
    CASE op \in { "WithHeader", "WithAddedHeader" } -> "header"
      [] op \in { "WithTrailer", "WithAddedTrailer" } -> "trailer"
      [] op \in { "WithQueryParam", "WithAddedQueryParam" } -> "query"
      [] OTHER -> "none"

IsSetStyle(op) == op \in { "WithHeader", "WithTrailer", "WithQueryParam" }

\* header and trailer names denote the same key when their canonical forms
\* agree (what Header.Set, Add and Values go by); query keys are compared as is
SameKey(store, k1, k2) ==
    IF store = "query" THEN k1 = k2
    ELSE CanonicalMIMEHeaderKey(k1) = CanonicalMIMEHeaderKey(k2)

\* what rq holds under key: Header.Values(key), Trailer.Values(key), Query()[key]
Stored(rq, store, key) ==
    CASE store = "header" -> rq.header[HeaderIndex(key)]
      [] store = "trailer" -> rq.trailer.values[HeaderIndex(key)]
      [] OTHER -> ValuesOf(rq.rawQuery, key)

\* the last Set-style option of os for the key (0: none)
LastSet(os, store, key) ==
    LET sets == { i \in 1..Len(os) : /\ StoreOf(os[i].opt.op) = store
                                     /\ IsSetStyle(os[i].opt.op)
                                     /\ SameKey(store, os[i].opt.key, key) }
    IN  IF sets = { } THEN 0 ELSE CHOOSE i \in sets : \A j \in sets : j <= i

\* the values of the Add-style options for the key from position i on
RECURSIVE AddedFrom(_, _, _, _)
AddedFrom(os, i, store, key) ==
    IF i > Len(os) THEN << >>
    ELSE (IF /\ StoreOf(os[i].opt.op) = store
             /\ ~IsSetStyle(os[i].opt.op)
             /\ SameKey(store, os[i].opt.key, key)
          THEN << os[i].opt.value >> ELSE << >>)
         \o AddedFrom(os, i + 1, store, key)

StoreKeys(store) == IF store = "query" THEN { QueryKeys[n] : n \in 1..Len(QueryKeys) }
                    ELSE HeaderNames

\* C13: after any sequence of Set-style and Add-style options a header, a
\* trailer or a query key holds the value of the last Set-style option for it
\* (the values the new request had when there was none), followed by the values
\* of the Add-style options for it applied after that, in the order they were
\* applied; a key no option names holds what it held in the new request.
C13_LastSetThenAdds ==
    \A store \in { "header", "trailer", "query" } :
        \A key \in StoreKeys(store) :
            LET n == LastSet(applied, store, key)
            IN  Stored(req, store, key) =
                    (IF n = 0 THEN Stored(NewRequestWithContext(url), store, key)
                     ELSE << applied[n].opt.value >>)
                    \o AddedFrom(applied, n + 1, store, key)

\* a Set and an Add for one trailer in two spellings, on a request whose query
\* came with two values for a key
C13_Witness ==
    /\ Len(applied) = 2
    /\ applied[1].opt = Option("WithTrailer", << "x", "-", "a" >>, << "2" >>)
    /\ applied[2].opt = Option("WithAddedTrailer", << "X", "-", "A" >>, << "1" >>)
    /\ req.trailer.values[HeaderIndex(<< "x", "-", "a" >>)] = << << "2" >>, << "1" >> >>
    /\ req.header = EmptyHeader
    /\ ValuesOf(req.rawQuery, << "k" >>) = << << "0" >>, << "9" >> >>

\* the calls of the trace d for which the condition held
RECURSIVE HeldCount(_)
HeldCount(d) ==
    IF d = << >> THEN 0
    ELSE (IF Head(d).holds THEN 1 ELSE 0) + HeldCount(Tail(d))

\* C14: a call of ConditionalHandler / StatusHandler whose condition holds
\* (StatusHandler: the response status is the given status) invokes the wrapped
\* handler once and returns what it returned; any other call returns
\* ErrUnhandledResponse / ErrSkipHandler and does not invoke it; so the wrapped
\* handler has run as often as there were calls whose condition held.
C14_InvokesWhenConditionHolds ==
    /\ \A k \in 1..Len(dispatch) :
          LET d == dispatch[k]
              ran == { n \in 1..Len(calls) : calls[n].idx = k }
          IN  /\ handlerKind = "StatusHandler" => (d.holds <=> d.status = d.statusCode)
              /\ IF d.holds
                 THEN d.err = d.ret /\ Cardinality(ran) = 1
                 ELSE d.err = SkipSentinel(api) /\ ran = { }
    /\ Len(calls) = HeldCount(dispatch)

\* a call that was passed on between two calls that reached the wrapped handler,
\* the last of which returned the wrapped handler's own error
C14_Witness ==
    /\ Len(dispatch) = 3
    /\ dispatch[1].holds /\ ~dispatch[2].holds /\ dispatch[3].holds
    /\ dispatch[1].err = NilErr
    /\ dispatch[3].err = Err("errTest")
    /\ Len(calls) = 2

\* the body as Client.Do handed it over: nothing read, not closed
Untouched(b) == b.unread /\ ~b.closed

\* C15: for a response with the problem content type ProblemHandler returns a
\* non-nil error, the decoded problem details or the decoding error, and has
\* closed the body; for any other content type it returns ErrUnhandledResponse
\* and has neither read nor closed the body.
C15_ProblemIsAlwaysAnError ==
    (handlerKind = "ProblemHandler" /\ pc = "done") =>
        IF CutParameters(resp.contentType) = ProblemContentType
        THEN /\ result.err # NilErr
             /\ result.err \in { Err("problem.Details"), Err("decodeErr") }
             /\ body.closed
        ELSE /\ result.err = ErrUnhandledResponse
             /\ Untouched(body)
             /\ calls = << >>

\* a problem response with a charset parameter whose body decodes: the details
\* come back as the error and the body is closed
C15_Witness ==
    /\ handlerKind = "ProblemHandler"
    /\ pc = "done"
    /\ resp.contentType = ProblemContentType \o << ";", " charset=utf-8" >>
    /\ result.err = Err("problem.Details")
    /\ body.closed
    /\ Len(calls) = 1

\* the place, in the order problem, JSON, XML, 204, 304, of the first entry
\* a response is for (0: none)
FirstApplicable(rsp) ==
    LET mediaType == CutParameters(rsp.contentType)
    IN  IF mediaType = ProblemContentType THEN 1
        ELSE IF mediaType = JSONContentType THEN 2
        ELSE IF mediaType = XMLContentType THEN 3
        ELSE IF rsp.status = StatusNoContent THEN 4
        ELSE IF rsp.status = StatusNotModified THEN 5
        ELSE 0

EntryNames ==
    << "ProblemHandler", "UnmarshalJSONHandler", "UnmarshalXMLHandler",
       "DiscardBodyHandler", "DiscardBodyHandler" >>

\* C16: with the DefaultHandlers a response goes to the first entry it is for,
\* in the order problem content type, "application/json", "application/xml",
\* status 204, status 304, and to that entry only, whose error is what Fetch
\* returns: a problem response gives an error and a JSON or XML response is
\* decoded whatever the status; a response for none of the five runs no
\* handler and gives ErrUnhandledResponse.
C16_FirstApplicableEntryOnly ==
    (handlerKind = "DefaultHandlers" /\ pc = "done") =>
        LET f == FirstApplicable(resp)
        IN  IF f = 0
            THEN calls = << >> /\ result.err = ErrUnhandledResponse
            ELSE /\ Len(calls) = 1
                 /\ calls[1].idx = f
                 /\ calls[1].handler = EntryNames[f]
                 /\ result.err = calls[1].ret
                 /\ f = 1 => result.err # NilErr

\* a 204 response with a JSON content type and parameters: decoded, not discarded
C16_Witness ==
    /\ handlerKind = "DefaultHandlers"
    /\ pc = "done"
    /\ resp = [status |-> StatusNoContent,
               contentType |-> JSONContentType \o << ";", " charset=utf-8" >>]
    /\ Len(calls) = 1
    /\ calls[1].handler = "UnmarshalJSONHandler"
    /\ result.err = NilErr

====
